---- MODULE Spec2Model ----
(***************************************************************************)
(* A model of nes_py/_app/play_human.py: play(), the interactive loop that *)
(* turns the pressed keys into an environment action, resets or steps the  *)
(* environment, renders the observation and processes the input events.    *)
(*                                                                         *)
(* The environment, the callback and the event source are collaborators:   *)
(* what they return (observation, done, reward, an exception, the next     *)
(* input event) is drawn nondeterministically from small sets.             *)
(***************************************************************************)
EXTENDS Integers, Sequences, FiniteSets, TLC

VARIABLES
    pc,             \* position in play(): start, loop, body, render, events, done, raised
    transpose,      \* argument transpose
    callback,       \* argument callback: TRUE when one is registered (not None)
    nop_,           \* argument nop_
    env_kind,       \* argument env: what play() is handed, once play() has looked at it
    obs_space,      \* env.observation_space.shape
    keys_to_action, \* local keys_to_action (a table: tuple of keys -> action)
    relevant_keys,  \* local relevant_keys
    video_size,     \* local video_size
    pressed_keys,   \* local pressed_keys (a Python list)
    running,        \* local running
    env_done,       \* local env_done
    obs,            \* local obs
    screen,         \* the display surface: its size and what was blitted to it last
    acquired,       \* number of pygame.display.set_mode calls
    released,       \* number of pygame.quit calls
    cycle,          \* number of loop iterations entered
    rendered,       \* number of display_arr blits in the current iteration
    calls,          \* the environment calls made so far, in order
    env_obs,        \* the observation the environment returned from its last call
    cbCount,        \* number of callback invocations
    cbLast,         \* the arguments of the last callback invocation, and (env_prev) what
                    \* the environment had returned from the call before that step
    lastEvent,      \* the input event processed last in the current iteration
    keyEvents,      \* TRUE once a key event has been processed
    keyLog,         \* the key events processed so far, while they are a press and its release
    quitCycle,      \* the iteration in which a QUIT event was first processed (0: none)
    raisedAt        \* where the exception that ended play() was raised

vars == << pc, transpose, callback, nop_, env_kind, obs_space, keys_to_action, relevant_keys,
           video_size, pressed_keys, running, env_done, obs, screen, acquired,
           released, cycle, rendered, calls, env_obs, cbCount, cbLast, lastEvent,
           keyEvents, keyLog, quitCycle, raisedAt >>

(***************************************************************************)
(* Bounds of the model.                                                    *)
(***************************************************************************)
\* the loop is followed for at most this many iterations
MaxCycles == 3
\* key-down events are followed while pressed_keys is shorter than this
MaxPressed == 2

(***************************************************************************)
(* Values.                                                                 *)
(***************************************************************************)
\* ASCII code 27 is the "escape" key
ESCAPE == 27
\* the key codes the event source delivers
Keys == {1, 2, ESCAPE}

\* Python's None as the value of an observation, and the value of the local obs
\* before its first assignment
None == [frame |-> 0, shape |-> <<>>]
Unbound == [frame |-> -1, shape |-> <<>>]
\* the action field of a logged reset call, which takes no action
NoAction == -1
\* the display before set_mode and after pygame.quit, and a window nothing was
\* blitted to yet
NoScreen == [frame |-> 0, channels |-> 0, size |-> <<>>]
Blank(size) == [frame |-> 0, channels |-> 0, size |-> size]
\* cbLast before the first callback invocation
NoCallback == [prev_obs |-> Unbound, obs |-> Unbound, action |-> NoAction,
               rew |-> 0, done |-> FALSE, env_prev |-> Unbound]

\* the distinct frames an environment returns
Frames == {1}

\* the height and width of the frames of the modelled environments
Height == 2
Width == 3

\* env.observation_space.shape: the three accepted shapes and two rejected ones
Shapes == { <<Height, Width>>, <<Height, Width, 1>>, <<Height, Width, 3>>,
            <<Height, Width, 4>>, <<Height>> }

\* key-to-action tables an environment may return from get_keys_to_action()
KeyMapOne == (<<>> :> 0) @@ (<<1>> :> 1)
KeyMapTwo == (<<>> :> 0) @@ (<<1>> :> 1) @@ (<<2>> :> 2) @@ (<<1, 2>> :> 3)
\* (a table without the empty combination: no key held is then unmapped)
KeyMapEsc == (<<ESCAPE>> :> 1)
KeyMaps == {KeyMapOne, KeyMapTwo, KeyMapEsc}

\* the kinds of environment: one that is no pixel box, one whose shape is neither
\* H x W nor H x W x {1, 3}, one without a key-to-action mapping, and a valid one
EnvKind(env) ==
    IF ~env.is_box THEN "no box"
    ELSE IF ~(\/ Len(env.shape) = 2
              \/ (Len(env.shape) = 3 /\ env.shape[3] \in {1, 3})) THEN "bad shape"
    ELSE IF env.keys_source = "none" THEN "no keys"
    ELSE "valid"

\* the environments play() may be handed
Envs == [ is_box : BOOLEAN, shape : Shapes,
          keys_source : {"env", "unwrapped", "none"}, keys : KeyMaps ]

\* the input events of pygame.event.get()
KEYDOWN == "KEYDOWN"
KEYUP == "KEYUP"
QUIT == "QUIT"
MOUSEMOTION == "MOUSEMOTION"
NoEvent == [type |-> "NONE", key |-> 0]
\* the log of key events once they are no longer one key-down followed, an
\* iteration later, by the key-up of the same key
ManyKeyEvents == << [type |-> "MANY", key |-> 0, cycle |-> 0] >>

(***************************************************************************)
(* Pure helpers, computed as Python computes them.                         *)
(***************************************************************************)
Range(s) == { s[i] : i \in DOMAIN s }

Count(s, k) == Cardinality({ i \in DOMAIN s : s[i] = k })

\* sorted(list): insertion into the sorted tail
RECURSIVE Insert(_, _)
Insert(x, s) ==
    IF s = <<>> THEN <<x>>
    ELSE IF x <= Head(s) THEN <<x>> \o s
    ELSE <<Head(s)>> \o Insert(x, Tail(s))

RECURSIVE Sorted(_)
Sorted(s) == IF s = <<>> THEN <<>> ELSE Insert(Head(s), Sorted(Tail(s)))

\* a removal that leaves the list as it is
RemoveNothing(s, k) == s

\* list.remove(k): drops the first occurrence of k (the caller checks it is there)
RECURSIVE Remove(_, _)
Remove(s, k) ==
    IF s = <<>> THEN <<>>
    ELSE IF Head(s) = k THEN Tail(s)
    ELSE <<Head(s)>> \o Remove(Tail(s), k)

\* set(sum(map(list, keys_to_action.keys()), []))
RelevantKeys(table) == UNION { Range(t) : t \in DOMAIN table }

\* a lookup whose default is not the configured no-op
ResolveOtherDefault(keys) ==
    IF Sorted(keys) \in DOMAIN keys_to_action
    THEN keys_to_action[Sorted(keys)]
    ELSE nop_ + 1

\* keys_to_action.get(tuple(sorted(pressed_keys)), nop_)
Resolve(keys) ==
    IF Sorted(keys) \in DOMAIN keys_to_action
    THEN keys_to_action[Sorted(keys)]
    ELSE nop_

\* the assertions on env.observation_space
IsBw(shape) == Len(shape) = 2
\* a check that accepts any number of channels
IsRgbAnyDepth(shape) == Len(shape) = 3

IsRgb(shape) == Len(shape) = 3 /\ shape[3] \in {1, 3}

\* video_size: (shape[0], shape[1]), reversed when transpose is set
VideoSize(shape, t) == IF t THEN <<shape[2], shape[1]>> ELSE <<shape[1], shape[2]>>

\* the observations an environment with the given observation space returns
Observations(shape) == {None} \cup [frame : Frames, shape : {shape}]

\* obs = obs[:, :, None] when the observation has two dimensions
AddChannel(o) == IF Len(o.shape) = 2 THEN [o EXCEPT !.shape = o.shape \o <<1>>] ELSE o

\* obs = obs.repeat(3, axis=2) when the observation has one channel
RepeatChannel(o) == IF o.shape[3] = 1 THEN [o EXCEPT !.shape[3] = 3] ELSE o

\* the observation as rebound by the rendering branch of play()
Normalize(o) == RepeatChannel(AddChannel(o))

\* display_arr with transpose set: make_surface(arr.swapaxes(0, 1)), scale, blit
DisplayFrame(arr, size) == [frame |-> arr.frame, channels |-> arr.shape[3], size |-> size]

(***************************************************************************)
(* The state on entry to play().                                           *)
(***************************************************************************)
Init ==
    /\ pc = "start"
    /\ transpose \in BOOLEAN
    /\ callback \in BOOLEAN
    /\ nop_ = 0
    /\ env_kind = "unseen"
    /\ obs_space = <<>>
    /\ keys_to_action = <<>>
    /\ relevant_keys = {}
    /\ video_size = <<>>
    /\ pressed_keys = <<>>
    /\ running = TRUE
    /\ env_done = TRUE
    /\ obs = Unbound
    /\ screen = NoScreen
    /\ acquired = 0
    /\ released = 0
    /\ cycle = 0
    /\ rendered = 0
    /\ calls = <<>>
    /\ env_obs = Unbound
    /\ cbCount = 0
    /\ cbLast = NoCallback
    /\ lastEvent = NoEvent
    /\ keyEvents = FALSE
    /\ keyLog = <<>>
    /\ quitCycle = 0
    /\ raisedAt = "none"

\* an exception propagates out of play(): nothing after the raising statement runs
Raise(where) ==
    /\ pc' = "raised"
    /\ raisedAt' = where

(***************************************************************************)
(* play(), lines 54-83: the checks on the environment and the setup of the *)
(* locals, the display and the clock.                                      *)
(***************************************************************************)
Setup ==
    /\ pc = "start"
    /\ \E env \in Envs :
          /\ env_kind' = EnvKind(env)
          /\ IF ~env.is_box \/ ~(IsBw(env.shape) \/ IsRgb(env.shape))
             THEN \* assert isinstance(...), assert is_bw or is_rgb
                  /\ Raise("AssertionError")
                  /\ UNCHANGED << obs_space, keys_to_action, relevant_keys, video_size,
                                  screen, acquired >>
             ELSE IF env.keys_source = "none"
             THEN \* raise ValueError('env has no get_keys_to_action method')
                  /\ Raise("ValueError")
                  /\ UNCHANGED << obs_space, keys_to_action, relevant_keys, video_size,
                                  screen, acquired >>
             ELSE /\ obs_space' = env.shape
                  /\ keys_to_action' = env.keys
                  /\ relevant_keys' = RelevantKeys(env.keys)
                  /\ video_size' = VideoSize(env.shape, transpose)
                  /\ screen' = Blank(VideoSize(env.shape, transpose))
                  /\ acquired' = acquired + 1
                  /\ pc' = "loop"
                  /\ UNCHANGED raisedAt
    /\ UNCHANGED << transpose, callback, nop_, pressed_keys, running, env_done, obs,
                    released, cycle, rendered, calls, env_obs, cbCount, cbLast,
                    lastEvent, keyEvents, keyLog, quitCycle >>

\* a loop that never tests running
LoopCondAlways == TRUE

\* the loop condition of line 85
LoopCond == running

\* while running: the loop is entered for one more iteration
EnterCycle ==
    /\ pc = "loop"
    /\ LoopCond
    /\ cycle < MaxCycles
    /\ cycle' = cycle + 1
    /\ rendered' = 0
    /\ pc' = "body"
    /\ UNCHANGED << transpose, callback, nop_, env_kind, obs_space, keys_to_action, relevant_keys,
                    video_size, pressed_keys, running, env_done, obs, screen, acquired,
                    released, calls, env_obs, cbCount, cbLast, lastEvent, keyEvents,
                    keyLog, quitCycle, raisedAt >>

\* the loop ends and pygame.quit() releases the display
Quit ==
    /\ pc = "loop"
    /\ ~LoopCond
    /\ released' = released + 1
    /\ screen' = NoScreen
    /\ pc' = "done"
    /\ UNCHANGED << transpose, callback, nop_, env_kind, obs_space, keys_to_action, relevant_keys,
                    video_size, pressed_keys, running, env_done, obs, acquired, cycle,
                    rendered, calls, env_obs, cbCount, cbLast, lastEvent, keyEvents,
                    keyLog, quitCycle, raisedAt >>

\* the entries of the log of environment calls
ResetCall(result) == [op |-> "reset", action |-> NoAction, done |-> FALSE, result |-> result]
StepCall(a, d, result) == [op |-> "step", action |-> a, done |-> d, result |-> result]

\* a reset branch that leaves env_done set
DoneAfterResetKept == TRUE

\* the value env_done takes in the reset branch (line 88)
DoneAfterReset == FALSE

\* a reset branch that also empties the key list
KeysAfterResetCleared(keys) == <<>>

\* pressed_keys after the reset branch: lines 88-89 assign env_done and obs only
KeysAfterReset(keys) == keys

\* lines 87-89: if env_done: env_done = False; obs = env.reset()
Reset ==
    /\ pc = "body"
    /\ env_done
    /\ env_done' = DoneAfterReset
    /\ pressed_keys' = KeysAfterReset(pressed_keys)
    /\ \/ \E o \in Observations(obs_space) :
             /\ obs' = o
             /\ env_obs' = o
             /\ calls' = Append(calls, ResetCall("returned"))
             /\ pc' = "render"
             /\ UNCHANGED raisedAt
       \/ /\ calls' = Append(calls, ResetCall("raised"))
          /\ Raise("reset")
          /\ UNCHANGED << obs, env_obs >>
    /\ UNCHANGED << transpose, callback, nop_, env_kind, obs_space, keys_to_action, relevant_keys,
                    video_size, running, screen, acquired, released,
                    cycle, rendered, cbCount, cbLast, lastEvent, keyEvents, keyLog, quitCycle >>

\* a step that drops the done flag the environment returned
StepDoneDropped(d) == FALSE

\* the value env_done takes from the tuple env.step returns (line 95)
StepDone(d) == d

\* a step that never invokes the callback
CallbackNever == FALSE

\* whether the callback is invoked after a step (line 97)
CallbackDue == callback

\* lines 91-98: resolve the action, env.step(action), then the callback
Step ==
    /\ pc = "body"
    /\ ~env_done
    /\ LET action == Resolve(pressed_keys)
           prev_obs == obs
       IN \/ \E o \in Observations(obs_space), d \in BOOLEAN, rew \in {1} :
                /\ obs' = o
                /\ env_obs' = o
                /\ env_done' = StepDone(d)
                /\ calls' = Append(calls, StepCall(action, d, "returned"))
                /\ IF CallbackDue
                   THEN /\ cbCount' = cbCount + 1
                        /\ cbLast' = [prev_obs |-> prev_obs, obs |-> o, action |-> action,
                                      rew |-> rew, done |-> d, env_prev |-> env_obs]
                        /\ \/ pc' = "render" /\ UNCHANGED raisedAt
                           \/ Raise("callback")
                   ELSE /\ pc' = "render"
                        /\ UNCHANGED << cbCount, cbLast, raisedAt >>
          \/ /\ calls' = Append(calls, StepCall(action, FALSE, "raised"))
             /\ Raise("step")
             /\ UNCHANGED << obs, env_obs, env_done, cbCount, cbLast >>
    /\ UNCHANGED << transpose, callback, nop_, env_kind, obs_space, keys_to_action, relevant_keys,
                    video_size, pressed_keys, running, screen, acquired, released,
                    cycle, rendered, lastEvent, keyEvents, keyLog, quitCycle >>

\* lines 99-110 and display_arr: normalise the observation and blit it.
\* Without transpose display_arr hands the numpy array itself to
\* pygame.transform.scale, which accepts only a Surface and raises TypeError.
Render ==
    /\ pc = "render"
    /\ IF obs = None
       THEN /\ pc' = "events"
            /\ UNCHANGED << obs, screen, rendered, raisedAt >>
       ELSE /\ obs' = Normalize(obs)
            /\ IF transpose
               THEN /\ screen' = DisplayFrame(Normalize(obs), video_size)
                    /\ rendered' = rendered + 1
                    /\ pc' = "events"
                    /\ UNCHANGED raisedAt
               ELSE /\ Raise("display_arr")
                    /\ UNCHANGED << screen, rendered >>
    /\ UNCHANGED << transpose, callback, nop_, env_kind, obs_space, keys_to_action, relevant_keys,
                    video_size, pressed_keys, running, env_done, acquired, released,
                    cycle, calls, env_obs, cbCount, cbLast, lastEvent, keyEvents,
                    keyLog, quitCycle >>

\* a handler that takes every key for a relevant one
IsRelevantAlways(k) == TRUE

\* the test of lines 117 and 126
IsRelevant(k) == k \in relevant_keys

\* a test that takes every key for the escape key
IsEscapeAnyKey(k) == TRUE

\* the test of line 121
IsEscape(k) == k = ESCAPE

\* the log of key events after one more event
Logged(type, k) ==
    IF keyLog = <<>> /\ type = KEYDOWN
    THEN << [type |-> type, key |-> k, cycle |-> cycle] >>
    ELSE IF /\ keyLog # ManyKeyEvents
            /\ Len(keyLog) = 1
            /\ type = KEYUP
            /\ k = keyLog[1].key
            /\ cycle = keyLog[1].cycle + 1
    THEN Append(keyLog, [type |-> type, key |-> k, cycle |-> cycle])
    ELSE ManyKeyEvents

\* what the event handlers leave alone
EventFrame ==
    UNCHANGED << transpose, callback, nop_, env_kind, obs_space, keys_to_action, relevant_keys,
                 video_size, env_done, obs, screen, acquired, released, cycle,
                 rendered, calls, env_obs, cbCount, cbLast >>

\* lines 115-122: one KEYDOWN event of the batch
HandleKeyDown ==
    /\ pc = "events"
    /\ \E k \in Keys :
          /\ lastEvent' = [type |-> KEYDOWN, key |-> k]
          /\ keyLog' = Logged(KEYDOWN, k)
          /\ IF IsRelevant(k)
             THEN /\ Len(pressed_keys) < MaxPressed
                  /\ pressed_keys' = Append(pressed_keys, k)
                  /\ UNCHANGED running
             ELSE IF IsEscape(k)
             THEN /\ running' = FALSE
                  /\ UNCHANGED pressed_keys
             ELSE UNCHANGED << pressed_keys, running >>
    /\ keyEvents' = TRUE
    /\ UNCHANGED << pc, quitCycle, raisedAt >>
    /\ EventFrame

\* lines 124-128: one KEYUP event of the batch
HandleKeyUp ==
    /\ pc = "events"
    /\ \E k \in Keys :
          /\ lastEvent' = [type |-> KEYUP, key |-> k]
          /\ keyLog' = Logged(KEYUP, k)
          /\ IF IsRelevant(k)
             THEN IF k \in Range(pressed_keys)
                  THEN /\ pressed_keys' = Remove(pressed_keys, k)
                       /\ UNCHANGED << pc, raisedAt >>
                  ELSE \* list.remove(x): x not in list
                       /\ Raise("pressed_keys.remove")
                       /\ UNCHANGED pressed_keys
             ELSE UNCHANGED << pressed_keys, pc, raisedAt >>
    /\ keyEvents' = TRUE
    /\ UNCHANGED << running, quitCycle >>
    /\ EventFrame

\* lines 130-131: a QUIT event of the batch
HandleQuit ==
    /\ pc = "events"
    /\ lastEvent' = [type |-> QUIT, key |-> 0]
    /\ running' = FALSE
    /\ quitCycle' = IF quitCycle = 0 THEN cycle ELSE quitCycle
    /\ UNCHANGED << pc, pressed_keys, keyEvents, keyLog, raisedAt >>
    /\ EventFrame

\* an event of any other type: no branch of lines 115-131 takes it
HandleOther ==
    /\ pc = "events"
    /\ lastEvent' = [type |-> MOUSEMOTION, key |-> 0]
    /\ UNCHANGED << pc, pressed_keys, running, keyEvents, keyLog, quitCycle, raisedAt >>
    /\ EventFrame

\* lines 133-136: the batch is exhausted; flip the display and tick the clock
FlipTick ==
    /\ pc = "events"
    /\ lastEvent' = NoEvent
    /\ pc' = "loop"
    /\ UNCHANGED << pressed_keys, running, keyEvents, keyLog, quitCycle, raisedAt >>
    /\ EventFrame

Next ==
    \/ Setup
    \/ EnterCycle
    \/ Quit
    \/ Reset
    \/ Step
    \/ Render
    \/ HandleKeyDown
    \/ HandleKeyUp
    \/ HandleQuit
    \/ HandleOther
    \/ FlipTick

Spec == Init /\ [][Next]_vars

(***************************************************************************)
(* Helpers of the properties.                                              *)
(***************************************************************************)
\* the keys of a set as the list a history pressing each once, in ascending
\* order, leaves in pressed_keys
HeldOnce(S) ==
    CHOOSE s \in [1..Cardinality(S) -> S] :
        /\ Range(s) = S
        /\ \A i \in 1..(Cardinality(S) - 1) : s[i] < s[i + 1]

\* the first step the environment was asked for returned done = true
FirstStepDone ==
    \A i \in DOMAIN calls :
        (calls[i].op = "step" /\ \A j \in 1..(i - 1) : calls[j].op # "step")
            => (calls[i].result = "returned" /\ calls[i].done)

\* an input event was processed by the step just taken
EventProcessed == pc = "events" /\ lastEvent' # NoEvent

(***************************************************************************)
(* C1: once running is false (a quit event or an escape key-down has been  *)
(* processed), play() makes no further call to env.reset or env.step.      *)
(***************************************************************************)
C1_NoCallAfterStop == [][~running => calls' = calls]_vars

\* play() has returned after two environment calls, with iterations to spare
C1_Witness == pc = "done" /\ ~running /\ Len(calls) = 2 /\ cycle < MaxCycles

(***************************************************************************)
(* C2: every loop iteration makes exactly one environment call; the call   *)
(* is reset iff it is the first one or the previous call was a step that   *)
(* returned done = true, and step otherwise.                               *)
(***************************************************************************)
C2_OneCallPerCycle ==
    /\ Len(calls) = IF pc = "body" THEN cycle - 1 ELSE cycle
    /\ \A i \in DOMAIN calls :
          (calls[i].op = "reset") <=>
              (i = 1 \/ (calls[i - 1].op = "step" /\ calls[i - 1].done))

\* three iterations: reset, a step that ends the episode, reset
C2_Witness ==
    /\ Len(calls) = 3
    /\ calls[2].op = "step" /\ calls[2].done
    /\ calls[3].op = "reset"

(***************************************************************************)
(* C3: with the table {(): 0, (K,): 1}, nop_ = 0, a callback, no key event,*)
(* a first step that returns done = true and a quit event in the third     *)
(* iteration, the environment calls are reset, step(0), reset and the      *)
(* callback is invoked exactly once, with done = true.                     *)
(***************************************************************************)
C3_Premise ==
    /\ pc = "done"
    /\ keys_to_action = KeyMapOne
    /\ nop_ = 0
    /\ callback
    /\ ~keyEvents
    /\ quitCycle = 3
    /\ FirstStepDone

C3_Scenario ==
    C3_Premise =>
        /\ Len(calls) = 3
        /\ calls[1].op = "reset"
        /\ calls[2].op = "step" /\ calls[2].action = 0
        /\ calls[3].op = "reset"
        /\ cbCount = 1
        /\ cbLast.done

C3_Witness == C3_Premise /\ cbCount = 1

(***************************************************************************)
(* C4: on every path by which play() exits after the display has been      *)
(* acquired (quit, escape, or an error propagating out of it), the display *)
(* is released exactly once.                                               *)
(***************************************************************************)
C4_ReleasedOnEveryExit ==
    (pc \in {"done", "raised"} /\ acquired = 1) => released = 1

(***************************************************************************)
(* C5: processing the input events raises no error, also for a key-up of a *)
(* relevant key that is not recorded as pressed.                           *)
(***************************************************************************)
C5_EventsNeverFail == raisedAt # "pressed_keys.remove"

(***************************************************************************)
(* C6: the pressed-key collection has set semantics: every key occurs in   *)
(* it at most once.                                                        *)
(***************************************************************************)
C6_SetSemantics == \A k \in Keys : Count(pressed_keys, k) <= 1

(***************************************************************************)
(* C7: immediately after a key-up event for a relevant key has been        *)
(* processed, the key is not in the pressed-key collection.                *)
(***************************************************************************)
C7_ReleasedKeyAbsent ==
    (lastEvent.type = KEYUP /\ lastEvent.key \in relevant_keys)
        => lastEvent.key \notin Range(pressed_keys)

(***************************************************************************)
(* C8: a key-down event for the escape key always sets running to false,   *)
(* for every key-to-action table.                                          *)
(***************************************************************************)
C8_EscapeStops ==
    (lastEvent.type = KEYDOWN /\ lastEvent.key = ESCAPE) => ~running

(***************************************************************************)
(* C9: the pressed-key collection holds only keys of the relevant-key set, *)
(* and key-down and key-up events for other keys leave it unchanged.       *)
(***************************************************************************)
C9_OnlyRelevantKeys ==
    /\ [](Range(pressed_keys) \subseteq relevant_keys)
    /\ [][(EventProcessed /\ lastEvent'.type \in {KEYDOWN, KEYUP}
                          /\ lastEvent'.key \notin relevant_keys)
              => pressed_keys' = pressed_keys]_vars

\* a key-down of a key that is neither relevant nor escape, while a key is held
C9_Witness ==
    /\ lastEvent.type = KEYDOWN
    /\ lastEvent.key \notin relevant_keys
    /\ lastEvent.key # ESCAPE
    /\ pressed_keys # <<>>

(***************************************************************************)
(* C10: two event histories that leave the same set of keys held resolve   *)
(* to the same action: the action is the one of the history that pressed   *)
(* each key of the set once.                                               *)
(***************************************************************************)
C10_ActionOfHeldSet ==
    acquired = 1 => Resolve(pressed_keys) = Resolve(HeldOnce(Range(pressed_keys)))

\* the last environment call was a step (pressed_keys is as that step read it
\* until the events of the iteration are processed)
StepJustMade ==
    /\ pc \in {"render", "raised"}
    /\ raisedAt \in {"none", "step", "callback"}
    /\ calls # <<>>
    /\ calls[Len(calls)].op = "step"

(***************************************************************************)
(* C11: when the sorted tuple of the held keys is not a key of the         *)
(* key-to-action table, the action passed to env.step is nop_.             *)
(***************************************************************************)
C11_UnmappedIsNop ==
    (StepJustMade /\ Sorted(pressed_keys) \notin DOMAIN keys_to_action)
        => calls[Len(calls)].action = nop_

\* a step with no key held under a table that does not map the empty combination
C11_Witness ==
    /\ StepJustMade
    /\ pressed_keys = <<>>
    /\ <<>> \notin DOMAIN keys_to_action
    /\ calls[Len(calls)].action = nop_

\* the key events so far are the key-down of key 1 in iteration n and its key-up
\* in iteration n + 1, under the table {(): 0, (1,): 1}
PressThenRelease(n) ==
    /\ keys_to_action = KeyMapOne
    /\ keyLog = << [type |-> KEYDOWN, key |-> 1, cycle |-> n],
                   [type |-> KEYUP, key |-> 1, cycle |-> n + 1] >>

(***************************************************************************)
(* C12: with the table {(): 0, (K,): 1}, when the key-down of K is         *)
(* processed in iteration n and its key-up in iteration n+1, the step of   *)
(* iteration n+1 receives action 1, the step of iteration n+2 receives     *)
(* action 0, and no error is raised.                                       *)
(***************************************************************************)
C12_PressThenRelease ==
    \A n \in 1..MaxCycles :
        PressThenRelease(n) =>
            /\ raisedAt # "pressed_keys.remove"
            /\ (Len(calls) >= n + 1 /\ calls[n + 1].op = "step")
                   => calls[n + 1].action = 1
            /\ (Len(calls) >= n + 2 /\ calls[n + 2].op = "step")
                   => calls[n + 2].action = 0

\* the key was pressed in iteration 1 and released in iteration 2, and
\* iterations 2 and 3 have made their steps
C12_Witness ==
    /\ PressThenRelease(1)
    /\ Len(calls) = 3
    /\ calls[2].op = "step" /\ calls[2].action = 1
    /\ calls[3].op = "step" /\ calls[3].action = 0

\* the number of env.step calls that have returned
CompletedSteps ==
    Cardinality({ i \in DOMAIN calls : calls[i].op = "step" /\ calls[i].result = "returned" })

(***************************************************************************)
(* C13: a registered callback is invoked exactly once for each env.step    *)
(* call that returns, before the rendering and the events of that          *)
(* iteration, with the action and done of that step, and never for a       *)
(* reset: at every moment the number of invocations equals the number of   *)
(* completed steps.                                                        *)
(***************************************************************************)
C13_CallbackPerStep ==
    /\ cbCount = IF callback THEN CompletedSteps ELSE 0
    /\ (callback /\ calls # <<>> /\ calls[Len(calls)].op = "step"
                 /\ calls[Len(calls)].result = "returned")
           => /\ cbLast.action = calls[Len(calls)].action
              /\ cbLast.done = calls[Len(calls)].done
              /\ cbLast.obs = env_obs

\* the second step has returned and its iteration has not rendered yet
C13_Witness ==
    /\ callback
    /\ pc = "render"
    /\ CompletedSteps = 2
    /\ cbCount = 2

(***************************************************************************)
(* C14: when the observation space is no pixel box of 2 dimensions or of 3 *)
(* dimensions with 1 or 3 channels, or the environment exposes no          *)
(* key-to-action mapping, play() fails before the display window is        *)
(* created and before any env.reset or env.step call.                      *)
(***************************************************************************)
C14_ConfigFailsFirst ==
    env_kind \in {"no box", "bad shape", "no keys"} =>
        /\ pc = "raised"
        /\ acquired = 0
        /\ cycle = 0
        /\ calls = <<>>

\* play() has failed on an environment without a key-to-action mapping
C14_Witness == env_kind = "no keys" /\ pc = "raised" /\ acquired = 0

\* the iteration is past its rendering branch, or failed in it or after it
PastRender ==
    \/ pc = "events"
    \/ (pc = "raised" /\ raisedAt \in {"display_arr", "pressed_keys.remove"})

(***************************************************************************)
(* C15: for every non-null observation and both values of transpose, the   *)
(* buffer handed to the display has 3 channels and the fixed target size:  *)
(* (W, H) when transpose is set and (H, W) otherwise.                      *)
(***************************************************************************)
C15_ThreeChannelsAtTargetSize ==
    (PastRender /\ env_obs # None) =>
        /\ screen.channels = 3
        /\ screen.size = IF transpose THEN <<obs_space[2], obs_space[1]>>
                                      ELSE <<obs_space[1], obs_space[2]>>

(***************************************************************************)
(* C16: an iteration whose environment call returned a null observation    *)
(* blits no frame, and its events are still processed; every iteration     *)
(* with a non-null observation blits exactly one frame.                    *)
(***************************************************************************)
C16_OneBlitPerObservation ==
    PastRender => rendered = IF env_obs = None THEN 0 ELSE 1

(***************************************************************************)
(* C17: the previous-observation argument of the callback is the value the *)
(* environment returned from the call before the step, for grayscale and   *)
(* RGB observations alike.                                                 *)
(***************************************************************************)
C17_PrevObsAsReturned == cbCount > 0 => cbLast.prev_obs = cbLast.env_prev

(***************************************************************************)
(* C18: running starts true, becomes false only when a quit event or an    *)
(* escape key-down is processed, and never becomes true again; an episode  *)
(* ending or a null observation does not stop the loop.                    *)
(***************************************************************************)
C18_StoppedOnlyByInput ==
    /\ [](pc = "start" => running)
    /\ [][/\ (running /\ ~running') =>
                 /\ EventProcessed
                 /\ \/ lastEvent'.type = QUIT
                    \/ (lastEvent'.type = KEYDOWN /\ lastEvent'.key = ESCAPE)
          /\ (~running) => ~running']_vars

\* an episode has ended with a null observation and the loop still runs
C18_Witness ==
    /\ pc = "loop"
    /\ running
    /\ Len(calls) = 2
    /\ calls[2].op = "step" /\ calls[2].done
    /\ env_obs = None

C20_QuitEndsInRelease ==
    quitCycle # 0 =>
        /\ pc # "raised"
        /\ pc = "done" => (released = 1 /\ cycle = quitCycle)

====
